---- MODULE Spec2Model ----
(***************************************************************************)
(* The playbook engine of the intake assistant: PlaybookBullet and         *)
(* Playbook (playbook.py), execute_operations and semantic_deduplication   *)
(* (curator_agent.py).                                                     *)
(*                                                                         *)
(* Python objects are modelled by a heap: heap[o] is the state of the      *)
(* PlaybookBullet object o, and the Playbook's list self.bullets is a      *)
(* sequence of object references.  The list returned by get_all_bullets    *)
(* holds references to the same objects.                                   *)
(***************************************************************************)
EXTENDS Integers, Sequences, FiniteSets, TLC

VARIABLES
    heap,      \* heap[o]: the PlaybookBullet object o (every object ever created)
    bullets,   \* Playbook.bullets: sequence of object references
    version,   \* Playbook.version
    file,      \* the durable file PLAYBOOK_FILE
    now,       \* the last reading of datetime.now()
    pc,        \* "idle", "returned" (a call has just returned), "exec" (inside
               \* execute_operations), "dedup", "stopped"
    last,      \* the last call of a Playbook method: arguments and outcome
    calls,     \* top-level calls made so far
    iofails,   \* saves that failed so far
    ex,        \* the running / last execute_operations call
    dd,        \* the running / last semantic_deduplication call
    other      \* the Playbook instance of another conversation: its bullets
               \* and version (heap, bullets, version are the instance the
               \* running request works on)

vars == <<heap, bullets, version, file, now, pc, last, calls, iofails, ex, dd, other>>

----------------------------------------------------------------------------
(* Bounds of the model *)

MaxObjs   == 3   \* bullets in the store at one time
MaxClock  == 2   \* clock readings of a run are 1..MaxClock
InitCount == 1   \* helpful_count / harmful_count in the loaded file are at most InitCount
MaxOps    == 2   \* length of an operation list given to execute_operations
InitLen   == 2   \* bullets in the durable file the Playbook is loaded from
MaxCalls  == 2   \* mutating calls in one behaviour
MaxIoFail == 1   \* saves that fail in one behaviour

----------------------------------------------------------------------------
(* Values *)

\* JSON values carried by the fields content / new_content.
Str(s)  == [t |-> "str",  s |-> s,  n |-> 0]
Num(n)  == [t |-> "int",  s |-> "", n |-> n]
None    == [t |-> "null", s |-> "", n |-> 0]

\* Python truthiness: `if new_content:`
Truthy(v) == CASE v.t = "str" -> v.s # ""
               [] v.t = "int" -> v.n # 0
               [] OTHER       -> FALSE

\* v[:60] is defined for strings; an int or None raises TypeError.
Sliceable(v) == v.t = "str"

Contents == {Str("a"), Str("b")}
Sections == {"core_rules", "questioning_strategy"}
VERSION  == "1.1"
NoId     == "nonexistent"

Min(a, b) == IF a <= b THEN a ELSE b

\* datetime.now().strftime('%Y%m%d_%H%M%S_%f') prefixed with bullet_
generate_id(t) == "bullet_" \o ToString(t)

\* datetime.now().isoformat()
isoformat(t) == "T" \o ToString(t)

\* PlaybookBullet.__init__(content, section, bullet_id=None): tId is the clock
\* reading of _generate_id, tCreated the reading of created_at.
NewBullet(content, section, bullet_id, tId, tCreated) ==
    [ id            |-> IF bullet_id # "" THEN bullet_id ELSE generate_id(tId),
      content       |-> content,
      helpful_count |-> 0,
      harmful_count |-> 0,
      section       |-> section,
      created_at    |-> isoformat(tCreated),
      last_updated  |-> isoformat(tCreated) ]

to_dict(b) ==
    [ id            |-> b.id,
      content       |-> b.content,
      helpful_count |-> b.helpful_count,
      harmful_count |-> b.harmful_count,
      section       |-> b.section,
      created_at    |-> b.created_at,
      last_updated  |-> b.last_updated ]

\* from_dict on a dict that carries every key; t is the clock reading of the
\* constructor, overwritten by the dict's stamps.
from_dict(d, t) ==
    [ NewBullet(d.content, d.section, d.id, t, t) EXCEPT
        !.helpful_count = d.helpful_count,
        !.harmful_count = d.harmful_count,
        !.created_at    = d.created_at,
        !.last_updated  = d.last_updated ]

mark_helpful(b, t) ==
    [b EXCEPT !.helpful_count = @ + 1, !.last_updated = isoformat(t)]

mark_harmful(b, t) ==
    [b EXCEPT !.harmful_count = @ + 1, !.last_updated = isoformat(t)]

\* Mutant: a bullet without feedback scores 0.
get_confidence_score_ZeroWhenNew(b) ==
    LET total == b.helpful_count + b.harmful_count
    IN  IF total = 0 THEN <<0, 1>> ELSE <<b.helpful_count, total>>

\* The confidence as the fraction <<numerator, denominator>>.
get_confidence_score(b) ==
    LET total == b.helpful_count + b.harmful_count
    IN  IF total = 0 THEN <<1, 2>> ELSE <<b.helpful_count, total>>

ConfGE(a, b) == a[1] * b[2] >= b[1] * a[2]
ConfGT(a, b) == a[1] * b[2] >  b[1] * a[2]

----------------------------------------------------------------------------
(* The durable file *)

NoFile      == [state |-> "absent",  version |-> "", last_updated |-> "", bullets |-> <<>>]
PartialFile == [state |-> "partial", version |-> "", last_updated |-> "", bullets |-> <<>>]

\* What the file holds after a complete write of the store (hp, bs, ver).
FileOf(hp, bs, ver, t) ==
    [ state        |-> "ok",
      version      |-> ver,
      last_updated |-> isoformat(t),
      bullets      |-> [k \in 1..Len(bs) |-> to_dict(hp[bs[k]])] ]

\* Outcomes of Playbook.save: the write completes; open() fails and the file
\* is untouched; open(..., 'w') truncated the file and the write fails (the
\* exception is printed and swallowed); the process stops inside the write.
SaveOutcomes == {"ok", "open_failed", "write_failed", "killed"}

save(f, hp, bs, ver, t, o) ==
    CASE o = "ok"          -> FileOf(hp, bs, ver, t)
      [] o = "open_failed" -> f
      [] OTHER             -> PartialFile

----------------------------------------------------------------------------
(* Playbook methods as functions of the store st = [heap, bullets, file,    *)
(* version]; t is the clock reading of the call, o the outcome of its save. *)
(* The result is [st, ok, id, saves].                                       *)

Store == [heap |-> heap, bullets |-> bullets, file |-> file, version |-> version]

HasId(st, id) == \E k \in 1..Len(st.bullets) : st.heap[st.bullets[k]].id = id

FirstWithId(st, id) ==
    CHOOSE k \in 1..Len(st.bullets) :
        /\ st.heap[st.bullets[k]].id = id
        /\ \A m \in 1..(k-1) : st.heap[st.bullets[m]].id # id

\* The bullets of the store, in store order.
BulletSeq(st) == [k \in 1..Len(st.bullets) |-> st.heap[st.bullets[k]]]

add_bullet(st, content, section, t, o) ==
    LET b  == NewBullet(content, section, "", t, t)
        hp == Append(st.heap, b)
        bs == Append(st.bullets, Len(hp))
    IN  [ st    |-> [st EXCEPT !.heap = hp, !.bullets = bs,
                               !.file = save(st.file, hp, bs, st.version, t, o)],
          ok    |-> TRUE,
          id    |-> b.id,
          saves |-> 1 ]

\* Mutant: the comprehension keeps the bullets it should drop.
remove_bullet_KeepsMatch(st, bullet_id, t, o) ==
    LET bs == SelectSeq(st.bullets, LAMBDA x : st.heap[x].id = bullet_id)
    IN  IF Len(bs) < Len(st.bullets)
        THEN [ st    |-> [st EXCEPT !.bullets = bs,
                                    !.file = save(st.file, st.heap, bs, st.version, t, o)],
               ok    |-> TRUE,
               id    |-> bullet_id,
               saves |-> 1 ]
        ELSE [ st |-> st, ok |-> FALSE, id |-> bullet_id, saves |-> 0 ]

\* Mutant: the list is saved before the bullet is taken out of it.
remove_bullet_SavesFirst(st, bullet_id, t, o) ==
    LET bs == SelectSeq(st.bullets, LAMBDA x : st.heap[x].id # bullet_id)
    IN  IF Len(bs) < Len(st.bullets)
        THEN [ st    |-> [st EXCEPT !.bullets = bs,
                                    !.file = save(st.file, st.heap, st.bullets, st.version, t, o)],
               ok    |-> TRUE,
               id    |-> bullet_id,
               saves |-> 1 ]
        ELSE [ st |-> st, ok |-> FALSE, id |-> bullet_id, saves |-> 0 ]

remove_bullet(st, bullet_id, t, o) ==
    LET bs == SelectSeq(st.bullets, LAMBDA x : st.heap[x].id # bullet_id)
    IN  IF Len(bs) < Len(st.bullets)
        THEN [ st    |-> [st EXCEPT !.bullets = bs,
                                    !.file = save(st.file, st.heap, bs, st.version, t, o)],
               ok    |-> TRUE,
               id    |-> bullet_id,
               saves |-> 1 ]
        ELSE [ st |-> st, ok |-> FALSE, id |-> bullet_id, saves |-> 0 ]

\* Mutant: save() is called whether or not the bullet was found.
modify_bullet_AlwaysSaves(st, bullet_id, new_content, mh, mm, t, o) ==
    IF HasId(st, bullet_id)
    THEN LET x  == st.bullets[FirstWithId(st, bullet_id)]
             b0 == st.heap[x]
             b1 == IF Truthy(new_content)
                   THEN [b0 EXCEPT !.content = new_content,
                                   !.last_updated = isoformat(t)]
                   ELSE b0
             b2 == IF mh THEN mark_helpful(b1, t) ELSE b1
             b3 == IF mm THEN mark_harmful(b2, t) ELSE b2
             hp == [st.heap EXCEPT ![x] = b3]
         IN  [ st    |-> [st EXCEPT !.heap = hp,
                                    !.file = save(st.file, hp, st.bullets, st.version, t, o)],
               ok    |-> TRUE,
               id    |-> bullet_id,
               saves |-> 1 ]
    ELSE [ st    |-> [st EXCEPT !.file = save(st.file, st.heap, st.bullets, st.version, t, o)],
           ok    |-> FALSE,
           id    |-> bullet_id,
           saves |-> 1 ]

\* Mutant: the three effects are an if / elif chain, so only the first
\* requested one is applied.
modify_bullet_Elif(st, bullet_id, new_content, mh, mm, t, o) ==
    IF HasId(st, bullet_id)
    THEN LET x  == st.bullets[FirstWithId(st, bullet_id)]
             b0 == st.heap[x]
             b3 == IF Truthy(new_content)
                   THEN [b0 EXCEPT !.content = new_content,
                                   !.last_updated = isoformat(t)]
                   ELSE IF mh THEN mark_helpful(b0, t)
                   ELSE IF mm THEN mark_harmful(b0, t)
                   ELSE b0
             hp == [st.heap EXCEPT ![x] = b3]
         IN  [ st    |-> [st EXCEPT !.heap = hp,
                                    !.file = save(st.file, hp, st.bullets, st.version, t, o)],
               ok    |-> TRUE,
               id    |-> bullet_id,
               saves |-> 1 ]
    ELSE [ st |-> st, ok |-> FALSE, id |-> bullet_id, saves |-> 0 ]

modify_bullet(st, bullet_id, new_content, mh, mm, t, o) ==
    IF HasId(st, bullet_id)
    THEN LET x  == st.bullets[FirstWithId(st, bullet_id)]
             b0 == st.heap[x]
             b1 == IF Truthy(new_content)
                   THEN [b0 EXCEPT !.content = new_content,
                                   !.last_updated = isoformat(t)]
                   ELSE b0
             b2 == IF mh THEN mark_helpful(b1, t) ELSE b1
             b3 == IF mm THEN mark_harmful(b2, t) ELSE b2
             hp == [st.heap EXCEPT ![x] = b3]
         IN  [ st    |-> [st EXCEPT !.heap = hp,
                                    !.file = save(st.file, hp, st.bullets, st.version, t, o)],
               ok    |-> TRUE,
               id    |-> bullet_id,
               saves |-> 1 ]
    ELSE [ st |-> st, ok |-> FALSE, id |-> bullet_id, saves |-> 0 ]

\* _initialize_default_playbook(): the baseline bullets (contents shortened);
\* ts[k] is the clock reading of the k-th constructor.
BaselineContents ==
    << Str("never diagnose"), Str("deflect requests for advice"),
       Str("clear and reassuring tone"), Str("acknowledge the symptom"),
       Str("broad welcoming question"), Str("when the symptoms started"),
       Str("what makes it better or worse"), Str("open-ended questions"),
       Str("emergency symptoms") >>

BaselineSections ==
    << "core_rules", "core_rules", "communication_style", "communication_style",
       "questioning_strategy", "questioning_strategy", "questioning_strategy",
       "questioning_strategy", "error_prevention" >>

initialize_default_playbook(st, ts) ==
    [st EXCEPT !.heap = [k \in 1..Len(BaselineSections) |->
                           NewBullet(BaselineContents[k], BaselineSections[k], "", ts[k], ts[k])],
               !.bullets = [k \in 1..Len(BaselineSections) |-> k]]

\* Mutant: load() gives the counters of a loaded bullet their defaults.
load_DropsCounts(st, ts, t) ==
    IF st.file.state = "ok"
    THEN [st EXCEPT !.version = st.file.version,
                    !.heap = [k \in 1..Len(st.file.bullets) |->
                                [from_dict(st.file.bullets[k], t) EXCEPT
                                   !.helpful_count = 0, !.harmful_count = 0]],
                    !.bullets = [k \in 1..Len(st.file.bullets) |-> k]]
    ELSE IF st.file.state = "badentry"
    THEN initialize_default_playbook([st EXCEPT !.version = st.file.version], ts)
    ELSE initialize_default_playbook(st, ts)

\* load(): the file parses and every entry of "bullets" carries content,
\* section and id (state "ok"); or the JSON parses and the version is taken
\* from it, but building the bullets raises (state "badentry"); or open /
\* json.load raises.  Every exception ends in the baseline bullets.
load(st, ts, t) ==
    IF st.file.state = "ok"
    THEN [st EXCEPT !.version = st.file.version,
                    !.heap = [k \in 1..Len(st.file.bullets) |->
                                from_dict(st.file.bullets[k], t)],
                    !.bullets = [k \in 1..Len(st.file.bullets) |-> k]]
    ELSE IF st.file.state = "badentry"
    THEN initialize_default_playbook([st EXCEPT !.version = st.file.version], ts)
    ELSE initialize_default_playbook(st, ts)

\* Mutant: the baseline bullets are not saved when no file exists.
load_or_initialize_NoSave(st, ts, t, o) ==
    IF st.file.state # "absent"
    THEN [ st |-> load(st, ts, t), ok |-> TRUE, id |-> "", saves |-> 0 ]
    ELSE [ st |-> initialize_default_playbook(st, ts), ok |-> TRUE, id |-> "", saves |-> 0 ]

\* load_or_initialize(): t is the clock reading of load / save.
load_or_initialize(st, ts, t, o) ==
    IF st.file.state # "absent"
    THEN [ st |-> load(st, ts, t), ok |-> TRUE, id |-> "", saves |-> 0 ]
    ELSE LET sd == initialize_default_playbook(st, ts)
         IN  [ st    |-> [sd EXCEPT !.file = save(sd.file, sd.heap, sd.bullets,
                                                  sd.version, t, o)],
               ok    |-> TRUE,
               id    |-> "",
               saves |-> 1 ]

\* Playbook(): __init__ on the durable file f.
Playbook_init(f, ts, t, o) ==
    load_or_initialize([heap |-> <<>>, bullets |-> <<>>, file |-> f, version |-> VERSION],
                       ts, t, o)

\* Objects that nothing references any more are reclaimed: outside a dedup
\* pass the heap holds exactly the store's objects, in store order.
Gc(st) ==
    [st EXCEPT !.heap = [k \in 1..Len(st.bullets) |-> st.heap[st.bullets[k]]],
               !.bullets = [k \in 1..Len(st.bullets) |-> k]]

----------------------------------------------------------------------------
(* Retrieval *)

\* Mutant: x goes before the elements of equal confidence (an unstable sort).
InsertByConf_BeforeTies(hp, s, x) ==
    LET before == { k \in 0..Len(s) :
                      \A m \in 1..k : ConfGT(get_confidence_score(hp[s[m]]),
                                             get_confidence_score(hp[x])) }
        k == CHOOSE q \in before : \A q2 \in before : q2 <= q
    IN  SubSeq(s, 1, k) \o <<x>> \o SubSeq(s, k + 1, Len(s))

\* Insert x into a list sorted by descending confidence, after every element
\* whose confidence is greater or equal: sorted(..., reverse=True) is stable.
InsertByConf(hp, s, x) ==
    LET before == { k \in 0..Len(s) :
                      \A m \in 1..k : ConfGE(get_confidence_score(hp[s[m]]),
                                             get_confidence_score(hp[x])) }
        k == CHOOSE q \in before : \A q2 \in before : q2 <= q
    IN  SubSeq(s, 1, k) \o <<x>> \o SubSeq(s, k + 1, Len(s))

RECURSIVE SortedByConf(_, _)
SortedByConf(hp, s) ==
    IF s = <<>> THEN <<>>
    ELSE InsertByConf(hp, SortedByConf(hp, SubSeq(s, 1, Len(s) - 1)), s[Len(s)])

\* Mutant: the list is returned in store order, not ranked.
get_all_bullets_Unsorted(st) == st.bullets

get_all_bullets(st) == SortedByConf(st.heap, st.bullets)

get_bullets_by_section(st, section) ==
    SelectSeq(st.bullets, LAMBDA x : st.heap[x].section = section)

\* Mutant: self.bullets.sort(...) in place of sorted(self.bullets, ...).
AfterRead_SortsInPlace(st) == [st EXCEPT !.bullets = SortedByConf(st.heap, st.bullets)]

\* The store after a read method: sorted(...) and the list comprehensions
\* build new lists bound to locals, and nothing is assigned to self or to a
\* bullet.
AfterRead(st) == st

\* The sections of a list of bullets in the order of their first appearance.
RECURSIVE SectionOrder(_, _)
SectionOrder(hp, s) ==
    IF s = <<>> THEN <<>>
    ELSE LET rest == SectionOrder(hp, SubSeq(s, 1, Len(s) - 1))
             sec  == hp[s[Len(s)]].section
         IN  IF \E k \in 1..Len(rest) : rest[k] = sec THEN rest ELSE Append(rest, sec)

RECURSIVE Flatten(_)
Flatten(ss) == IF ss = <<>> THEN <<>> ELSE Head(ss) \o Flatten(Tail(ss))

\* to_prompt_text(sections, top_k): the bullets in the order the text lists
\* them.  secGiven / topGiven tell whether the argument is passed at all
\* (None otherwise); sections is the set of the list's elements.
to_prompt_text(st, secGiven, sections, topGiven, top_k) ==
    LET hp == st.heap
        b0 == st.bullets
        b1 == IF secGiven /\ sections # {}
              THEN SelectSeq(b0, LAMBDA x : hp[x].section \in sections)
              ELSE b0
        b2 == SortedByConf(hp, b1)
        b3 == IF topGiven /\ top_k # 0 THEN SubSeq(b2, 1, Min(top_k, Len(b2))) ELSE b2
        so == SectionOrder(hp, b3)
    IN  Flatten([k \in 1..Len(so) |-> SelectSeq(b3, LAMBDA x : hp[x].section = so[k])])

\* a1/b1 + a2/b2 as a fraction
FracAdd(x, y) == <<x[1] * y[2] + y[1] * x[2], x[2] * y[2]>>

RECURSIVE SumConf(_)
SumConf(bs) ==
    IF bs = <<>> THEN <<0, 1>>
    ELSE FracAdd(get_confidence_score(Head(bs)), SumConf(Tail(bs)))

RECURSIVE SumField(_, _)
SumField(bs, helpful) ==
    IF bs = <<>> THEN 0
    ELSE (IF helpful THEN Head(bs).helpful_count ELSE Head(bs).harmful_count)
           + SumField(Tail(bs), helpful)

\* get_statistics(); average_confidence is the fraction <<sum, count>> with
\* the sum itself a fraction, <<0, 1>> for an empty store.
get_statistics(st) ==
    LET bs == BulletSeq(st)
        sm == SumConf(bs)
    IN  [ version                |-> st.version,
          total_bullets          |-> Len(bs),
          sections               |-> { bs[k].section : k \in 1..Len(bs) },
          total_helpful_feedback |-> SumField(bs, TRUE),
          total_harmful_feedback |-> SumField(bs, FALSE),
          average_confidence     |-> IF bs = <<>> THEN <<0, 1>>
                                     ELSE <<sm[1], sm[2] * Len(bs)>> ]

----------------------------------------------------------------------------
(* State after construction: Playbook() found a well-formed durable file    *)
(* (written by an earlier run, at clock readings before this run's) and     *)
(* loaded it.                                                               *)

InitDict(k, c, s, h, m) ==
    [ id            |-> generate_id(k),
      content       |-> c,
      helpful_count |-> h,
      harmful_count |-> m,
      section       |-> s,
      created_at    |-> isoformat(k),
      last_updated  |-> isoformat(k) ]

\* get_statistics() of a store without bullets
NoStats ==
    [ version |-> VERSION, total_bullets |-> 0, sections |-> {},
      total_helpful_feedback |-> 0, total_harmful_feedback |-> 0,
      average_confidence |-> <<0, 1>> ]

LastNone ==
    [ op |-> "", id |-> "", nc |-> None, mh |-> FALSE, mm |-> FALSE,
      ok |-> FALSE, saves |-> 0, io |-> "",
      secGiven |-> FALSE, sections |-> {}, topGiven |-> FALSE, top_k |-> 0,
      out |-> <<>>, stats |-> NoStats ]

ExNone == [ ops |-> <<>>, k |-> 0, results |-> <<>>, raised |-> FALSE, returned |-> FALSE,
            rc |-> "", before |-> [bullets |-> <<>>, file |-> NoFile] ]

EvNone == [ o1 |-> 0, o2 |-> 0, c1 |-> <<0, 1>>, c2 |-> <<0, 1>>, h1 |-> 0, h2 |-> 0,
            kind |-> "", raised |-> FALSE, dup |-> FALSE, score |-> 0 ]

\* No other conversation holds an instance.
NoInstance == [heap |-> <<>>, bullets |-> <<>>, version |-> ""]

DdNone == [ snap |-> <<>>, i |-> 0, j |-> 0, checked |-> {}, merges |-> <<>>,
            calls |-> <<>>, ev |-> EvNone, step |-> "", returned |-> FALSE ]

Loaded(n, cs, ss, hs, ms) ==
    LET ds == [k \in 1..n |-> InitDict(k - n, cs[k], ss[k], hs[k], ms[k])]
    IN  /\ heap = [k \in 1..n |-> from_dict(ds[k], 1)]
        /\ bullets = [k \in 1..n |-> k]
        /\ version = VERSION
        /\ file = [state |-> "ok", version |-> VERSION,
                   last_updated |-> isoformat(0), bullets |-> ds]
        /\ now = 1
        /\ pc = "idle"
        /\ last = LastNone
        /\ ex = ExNone
        /\ dd = DdNone

Init ==
    /\ other = NoInstance
    /\ \E n \in 0..InitLen :
         \E cs \in [1..n -> {Str("a")}], ss \in [1..n -> Sections] :
             Loaded(n, cs, ss, [k \in 1..n |-> 0], [k \in 1..n |-> 0])
    /\ calls = 0
    /\ iofails = 0

----------------------------------------------------------------------------
(* The environment: the clock (datetime.now() never goes back, and two      *)
(* calls may read the same value) and the outcome of a save.                *)

Tick ==
    /\ UNCHANGED other
    /\ pc \in {"idle", "exec", "dedup"}
    /\ now < MaxClock
    /\ now' = now + 1
    /\ UNCHANGED <<heap, bullets, version, file, pc, last, calls, iofails, ex, dd>>

Outcomes == IF iofails < MaxIoFail THEN SaveOutcomes ELSE {"ok"}

\* The effect of a Playbook method that ran to its return.
Returned(res, o) ==
    LET st == IF pc = "dedup" THEN res.st ELSE Gc(res.st)
    IN  /\ heap' = st.heap
        /\ bullets' = st.bullets
        /\ file' = st.file
        /\ version' = st.version
        /\ iofails' = IF res.saves > 0 /\ o # "ok" THEN iofails + 1 ELSE iofails

\* The process stops inside the write of save: the file is left truncated.
Killed ==
    /\ file' = PartialFile
    /\ pc' = "stopped"
    /\ iofails' = iofails + 1
    /\ UNCHANGED <<heap, bullets, version, now, last, calls, ex, dd>>

\* The caller takes the returned value and goes on.
Resume ==
    /\ UNCHANGED other
    /\ pc = "returned"
    /\ pc' = "idle"
    /\ last' = LastNone
    /\ ex' = ExNone
    /\ dd' = DdNone
    /\ heap' = Gc(Store).heap
    /\ bullets' = Gc(Store).bullets
    /\ UNCHANGED <<version, file, now, calls, iofails>>

\* The next request is for the other conversation: conv["playbook"] is that
\* conversation's instance, built by its start_conversation and never
\* reloaded.  The file is shared.
Switch ==
    /\ pc = "idle"
    /\ other # NoInstance
    /\ heap' = other.heap
    /\ bullets' = other.bullets
    /\ version' = other.version
    /\ other' = [heap |-> heap, bullets |-> bullets, version |-> version]
    /\ UNCHANGED <<file, now, pc, last, calls, iofails, ex, dd>>

----------------------------------------------------------------------------
(* Direct calls of the Playbook's methods *)

AddBullet ==
    /\ UNCHANGED other
    /\ pc = "idle"
    /\ calls < MaxCalls
    /\ Len(bullets) < MaxObjs
    /\ \E c \in Contents, s \in Sections, o \in Outcomes :
         LET res == add_bullet(Store, c, s, now, o)
         IN  IF o = "killed" THEN Killed
             ELSE /\ Returned(res, o)
                  /\ last' = [LastNone EXCEPT !.op = "add_bullet", !.id = res.id,
                                 !.ok = res.ok, !.saves = res.saves, !.io = o]
                  /\ calls' = calls + 1
                  /\ pc' = "returned"
                  /\ UNCHANGED <<now, ex, dd>>

IdArgs == { heap[k].id : k \in 1..Len(heap) } \cup {NoId}

RemoveBullet ==
    /\ UNCHANGED other
    /\ pc = "idle"
    /\ calls < MaxCalls
    /\ \E id \in IdArgs, o \in Outcomes :
         LET res == remove_bullet(Store, id, now, o)
             did == res.saves > 0
         IN  /\ did \/ o = "ok"
             /\ IF did /\ o = "killed" THEN Killed
                ELSE /\ Returned(res, o)
                     /\ last' = [LastNone EXCEPT !.op = "remove_bullet", !.id = id,
                                    !.ok = res.ok, !.saves = res.saves,
                                    !.io = IF did THEN o ELSE ""]
                     /\ calls' = calls + 1
                     /\ pc' = "returned"
                     /\ UNCHANGED <<now, ex, dd>>

NewContents == {None, Str(""), Str("b")}

ModifyBullet ==
    /\ UNCHANGED other
    /\ pc = "idle"
    /\ calls < MaxCalls
    /\ \E id \in IdArgs, nc \in NewContents, mh \in BOOLEAN, mm \in BOOLEAN,
          o \in Outcomes :
         LET res == modify_bullet(Store, id, nc, mh, mm, now, o)
             did == res.saves > 0
         IN  /\ did \/ o = "ok"
             /\ IF did /\ o = "killed" THEN Killed
                ELSE /\ Returned(res, o)
                     /\ last' = [LastNone EXCEPT !.op = "modify_bullet", !.id = id,
                                    !.nc = nc, !.mh = mh, !.mm = mm,
                                    !.ok = res.ok, !.saves = res.saves,
                                    !.io = IF did THEN o ELSE ""]
                     /\ calls' = calls + 1
                     /\ pc' = "returned"
                     /\ UNCHANGED <<now, ex, dd>>

\* The clock readings of the baseline constructors: they never go back.
SeedClocks ==
    { ts \in [1..Len(BaselineSections) -> now..MaxClock] :
        \A k \in 1..(Len(BaselineSections) - 1) : ts[k] <= ts[k + 1] }

\* get_playbook() / Playbook(): a new instance is built from the durable file
\* and takes the place of the previous one.
Construct ==
    /\ UNCHANGED other
    /\ pc \in {"boot", "idle"}
    /\ \E ts \in SeedClocks, o \in Outcomes :
         LET t    == ts[Len(BaselineSections)]
             res  == Playbook_init(file, ts, t, o)
             seeds == file.state # "ok"
             did  == res.saves > 0
         IN  /\ did \/ o = "ok"
             /\ seeds \/ t = now
             /\ IF did /\ o = "killed" THEN Killed
                ELSE /\ Returned(res, o)
                     /\ now' = t
                     /\ last' = [LastNone EXCEPT !.op = "__init__", !.ok = res.ok,
                                    !.saves = res.saves, !.io = IF did THEN o ELSE ""]
                     /\ pc' = "returned"
                     /\ UNCHANGED <<calls, ex, dd>>

TopKArgs == 0..2

\* The return of a read method.
ReadReturns ==
    /\ heap' = AfterRead(Store).heap
    /\ bullets' = AfterRead(Store).bullets
    /\ version' = AfterRead(Store).version
    /\ file' = AfterRead(Store).file
    /\ pc' = "returned"
    /\ UNCHANGED <<now, calls, iofails, ex, dd>>

ToPromptText ==
    /\ UNCHANGED other
    /\ pc = "idle"
    /\ \E secGiven \in BOOLEAN, sections \in SUBSET Sections,
          topGiven \in BOOLEAN, top_k \in TopKArgs :
         /\ secGiven \/ sections = {}
         /\ topGiven \/ top_k = 0
         /\ last' = [LastNone EXCEPT !.op = "to_prompt_text",
                        !.secGiven = secGiven, !.sections = sections,
                        !.topGiven = topGiven, !.top_k = top_k,
                        !.out = to_prompt_text(Store, secGiven, sections, topGiven, top_k)]
    /\ ReadReturns

GetAllBullets ==
    /\ UNCHANGED other
    /\ pc = "idle"
    /\ last' = [LastNone EXCEPT !.op = "get_all_bullets", !.out = get_all_bullets(Store)]
    /\ ReadReturns

GetBulletsBySection ==
    /\ UNCHANGED other
    /\ pc = "idle"
    /\ \E section \in Sections :
         last' = [LastNone EXCEPT !.op = "get_bullets_by_section", !.sections = {section},
                     !.out = get_bullets_by_section(Store, section)]
    /\ ReadReturns

GetStatistics ==
    /\ UNCHANGED other
    /\ pc = "idle"
    /\ last' = [LastNone EXCEPT !.op = "get_statistics", !.stats = get_statistics(Store)]
    /\ ReadReturns

----------------------------------------------------------------------------
(* execute_operations(playbook, operations)                                 *)

\* An entry of the operation list: a dict with the keys `keys` (the other
\* fields of the record are then unused), or something that is not a dict.
Op(keys, type, content, section, bullet_id, new_content) ==
    [ dict |-> TRUE, keys |-> keys, type |-> type, content |-> content,
      section |-> section, bullet_id |-> bullet_id, new_content |-> new_content ]

NotADict ==
    [ dict |-> FALSE, keys |-> {}, type |-> "", content |-> None,
      section |-> "", bullet_id |-> "", new_content |-> None ]

AddOp(c, s)    == Op({"type", "content", "section"}, "add", c, s, "", None)
IdOp(type, id) == Op({"type", "bullet_id"}, type, None, "", id, None)
ModifyOp(id, c) == Op({"type", "bullet_id", "new_content"}, "modify", None, "", id, c)

\* op.get("type"): None when the key is missing
GetType(op) == IF "type" \in op.keys THEN op.type ELSE "None"

\* op.get("new_content")
GetNewContent(op) == IF "new_content" \in op.keys THEN op.new_content ELSE None

Result(operation, success, bullet_id, message) ==
    [ operation |-> operation, success |-> success, bullet_id |-> bullet_id,
      message |-> message ]

ErrorResult(op) == Result(GetType(op), FALSE, "", "Error executing operation")

\* One iteration of the loop over a dict entry: the store afterwards and the
\* results it appends.  t is the clock reading, o the outcome of the save.
ExecuteOne(st, op, t, o) ==
    LET type == GetType(op)
        none == [st |-> st, ok |-> FALSE, id |-> "", saves |-> 0]
    IN  CASE type = "add" ->
               IF {"content", "section"} \subseteq op.keys
               THEN LET res == add_bullet(st, op.content, op.section, t, o)
                    IN  [ res |-> res,
                          out |-> <<Result("add", TRUE, res.id, "Added new bullet")>>
                                  \o (IF Sliceable(op.content) THEN <<>>
                                      ELSE <<ErrorResult(op)>>) ]
               ELSE [ res |-> none, out |-> <<ErrorResult(op)>> ]
          [] type = "remove" ->
               IF "bullet_id" \in op.keys
               THEN LET res == remove_bullet(st, op.bullet_id, t, o)
                    IN  [ res |-> res,
                          out |-> <<Result("remove", res.ok, op.bullet_id,
                                      IF res.ok THEN "Removed bullet" ELSE "Bullet not found")>> ]
               ELSE [ res |-> none, out |-> <<ErrorResult(op)>> ]
          [] type = "modify" ->
               IF "bullet_id" \in op.keys
               THEN LET res == modify_bullet(st, op.bullet_id, GetNewContent(op),
                                             FALSE, FALSE, t, o)
                    IN  [ res |-> res,
                          out |-> <<Result("modify", res.ok, op.bullet_id,
                                      IF res.ok THEN "Modified bullet" ELSE "Bullet not found")>> ]
               ELSE [ res |-> none, out |-> <<ErrorResult(op)>> ]
          [] type = "mark_helpful" ->
               IF "bullet_id" \in op.keys
               THEN LET res == modify_bullet(st, op.bullet_id, None, TRUE, FALSE, t, o)
                    IN  [ res |-> res,
                          out |-> <<Result("mark_helpful", res.ok, op.bullet_id,
                                      IF res.ok THEN "Marked as helpful" ELSE "Bullet not found")>> ]
               ELSE [ res |-> none, out |-> <<ErrorResult(op)>> ]
          [] type = "mark_harmful" ->
               IF "bullet_id" \in op.keys
               THEN LET res == modify_bullet(st, op.bullet_id, None, FALSE, TRUE, t, o)
                    IN  [ res |-> res,
                          out |-> <<Result("mark_harmful", res.ok, op.bullet_id,
                                      IF res.ok THEN "Marked as harmful" ELSE "Bullet not found")>> ]
               ELSE [ res |-> none, out |-> <<ErrorResult(op)>> ]
          [] OTHER ->
               [ res |-> none,
                 out |-> <<Result(type, FALSE, "", "Unknown operation type")>> ]

\* The entries an operation list is drawn from.
Payloads ==
    {NotADict}
      \cup {AddOp(Str("b"), "core_rules"), AddOp(Num(5), "core_rules")}
      \cup {Op({"type", "content"}, "add", Str("b"), "", "", None)}
      \cup {IdOp(type, id) : type \in {"remove", "mark_helpful", "mark_harmful"},
                             id \in IdArgs}
      \cup {ModifyOp(id, Str("b")) : id \in IdArgs}
      \cup {Op({"type"}, "remove", None, "", "", None)}
      \cup {Op({"type"}, "merge", None, "", "", None)}
      \cup {Op({}, "", None, "", "", None)}

OpLists == UNION { [1..n -> Payloads] : n \in 0..MaxOps }

ExecStart ==
    /\ UNCHANGED other
    /\ pc = "idle"
    /\ \E ops \in OpLists :
         /\ calls + Len(ops) <= MaxOps
         /\ calls' = calls + Len(ops)
         /\ ex' = [ExNone EXCEPT !.ops = ops]
    /\ pc' = "exec"
    /\ UNCHANGED <<heap, bullets, version, file, now, last, iofails, dd>>

\* The loop body on the next entry.  op.get on an entry that is not a dict
\* raises outside the try block: the exception leaves execute_operations.
ExecOp ==
    /\ UNCHANGED other
    /\ pc = "exec"
    /\ ex.k < Len(ex.ops)
    /\ LET op == ex.ops[ex.k + 1]
       IN  IF ~op.dict
           THEN /\ ex' = [ex EXCEPT !.raised = TRUE]
                /\ pc' = "returned"
                /\ UNCHANGED <<heap, bullets, version, file, now, last, calls, iofails, dd>>
           ELSE \E o \in Outcomes :
                  LET r == ExecuteOne(Store, op, now, o)
                  IN  /\ r.res.saves > 0 \/ o = "ok"
                      /\ IF r.res.saves > 0 /\ o = "killed" THEN Killed
                         ELSE /\ Returned(r.res, o)
                              /\ ex' = [ex EXCEPT !.k = @ + 1, !.results = @ \o r.out]
                              /\ UNCHANGED <<now, pc, last, calls, dd>>

ExecReturn ==
    /\ UNCHANGED other
    /\ pc = "exec"
    /\ ex.k = Len(ex.ops)
    /\ ex' = [ex EXCEPT !.returned = TRUE]
    /\ pc' = "returned"
    /\ UNCHANGED <<heap, bullets, version, file, now, last, calls, iofails, dd>>

----------------------------------------------------------------------------
(* run_curator(playbook, reflector_analysis, conversation_history)          *)

\* What the curator model's answer leads to inside the try block:
\*   "raises"      ollama.chat raises, the content is not JSON, or the JSON
\*                 value is not a record (operations_data.get raises);
\*   "no_key"      a record without "operations": the default [] is executed;
\*   "not_list"    "operations" is null or a number: the for loop of
\*                 execute_operations raises TypeError before any entry;
\*   "list"        "operations" is a list, executed entry by entry.
CuratorResponses ==
    { [kind |-> k, ops |-> <<>>] : k \in {"raises", "no_key", "not_list"} }
      \cup { [kind |-> "list", ops |-> ops] : ops \in OpLists }

\* execute_operations is entered and its loop runs.
CuratorRuns(r) == r.kind \in {"no_key", "list"}

\* The call of run_curator up to the loop of execute_operations.  ex.rc is
\* "failed" when the try block was left by an exception, "running" while
\* execute_operations runs; ex.before holds the bullets and the file at the
\* call.
RunCuratorStart ==
    /\ UNCHANGED other
    /\ pc = "idle"
    /\ \E r \in CuratorResponses :
         /\ calls + Len(r.ops) <= MaxOps
         /\ calls' = calls + Len(r.ops)
         /\ LET new == [ExNone EXCEPT
                          !.before = [bullets |-> BulletSeq(Store), file |-> file]]
            IN  IF CuratorRuns(r)
                THEN /\ ex' = [new EXCEPT !.ops = r.ops, !.rc = "running"]
                     /\ pc' = "exec"
                ELSE /\ ex' = [new EXCEPT !.rc = "failed"]
                     /\ pc' = "returned"
    /\ UNCHANGED <<heap, bullets, version, file, now, last, iofails, dd>>

\* The dictionary run_curator returns: the failure form of the except branch
\* when the try block raised (in run_curator or out of execute_operations),
\* the success form otherwise.
run_curator_result ==
    IF ex.rc = "failed" \/ ex.raised
    THEN [ error |-> TRUE, operations_proposed |-> <<>>, execution_results |-> <<>> ]
    ELSE [ error |-> FALSE, operations_proposed |-> ex.ops,
           execution_results |-> ex.results ]

----------------------------------------------------------------------------
(* semantic_deduplication(playbook, threshold=0.85)                         *)

\* The default threshold 0.85; similarity scores are counted in hundredths.
Threshold == 85

\* The judge's answer for one pair, by kind:
\*   "raises"  ollama.chat raises, the content is not JSON, or the JSON value
\*             is not a record (result.get raises);
\*   "number"  a record whose similarity_score is a number;
\*   "text"    a record whose similarity_score is a string, null or a list;
\*   "bool"    a record whose similarity_score is true or false, which compare
\*             as 1 and 0: score is 100 or 0 hundredths.
\* dup is the truth value of are_duplicates.
JudgeResponses ==
    { [kind |-> "raises", dup |-> FALSE, score |-> 0] }
      \cup { [kind |-> "number", dup |-> d, score |-> sc] :
               d \in BOOLEAN, sc \in {Threshold - 5, Threshold, Threshold + 5} }
      \cup { [kind |-> "text", dup |-> d, score |-> 0] : d \in BOOLEAN }
      \cup { [kind |-> "bool", dup |-> d, score |-> sc] :
               d \in BOOLEAN, sc \in {0, 100} }

\* The try block raises before a merge is decided: the call or the parsing
\* raises, or are_duplicates is truthy and the comparison of a string, null
\* or list with the threshold raises TypeError (`and` evaluates its right
\* side only then).
Raises(resp) ==
    \/ resp.kind = "raises"
    \/ resp.kind = "text" /\ resp.dup

\* result.get("are_duplicates") and result.get("similarity_score", 0) >= threshold
ShouldMerge(resp) == resp.dup /\ resp.score >= Threshold

\* Mutant: > in place of >=, so a tie keeps bullet2.
KeepFirst_Strict(b1, b2) == ConfGT(get_confidence_score(b1), get_confidence_score(b2))

\* bullet1.get_confidence_score() >= bullet2.get_confidence_score()
KeepFirst(b1, b2) == ConfGE(get_confidence_score(b1), get_confidence_score(b2))

\* Mutant: the section test is left out.
DifferentSection_Never(b1, b2) == FALSE

\* bullet1.section != bullet2.section
DifferentSection(b1, b2) == b1.section # b2.section

pair_key(b1, b2) == b1.id \o "_" \o b2.id

\* Mutant: no break after a merge, the inner loop goes on with the same
\* bullet1.
NextPair_NoBreak(i, j, n, brk) ==
    IF j < n THEN <<i, j + 1>>
    ELSE IF i + 2 <= n THEN <<i + 1, i + 2>>
    ELSE <<n, n + 1>>

\* Mutant: the inner loop runs over the whole list, not over bullets[i+1:].
NextPair_FromStart(i, j, n, brk) ==
    IF ~brk /\ j < n THEN <<i, j + 1>>
    ELSE IF i + 2 <= n THEN <<i + 1, 1>>
    ELSE <<n, n + 1>>

\* The pair the loops visit after (i, j) in a list of n bullets; brk: the
\* inner loop was left by break.  (n, n + 1) when the loops are over.
NextPair(i, j, n, brk) ==
    IF ~brk /\ j < n THEN <<i, j + 1>>
    ELSE IF i + 2 <= n THEN <<i + 1, i + 2>>
    ELSE <<n, n + 1>>

\* Merge loser into keeper: modify_bullet(keeper.id, mark_helpful=...), then
\* remove_bullet(loser.id).
Merge(st, keeper, loser, t, o1, o2) ==
    LET m == modify_bullet(st, keeper.id, None, loser.helpful_count > 0, FALSE, t, o1)
    IN  remove_bullet(m.st, loser.id, t, o2)

DedupStart ==
    /\ UNCHANGED other
    /\ pc = "idle"
    /\ LET bs == get_all_bullets(Store)
       IN  IF Len(bs) < 2
           THEN /\ dd' = [DdNone EXCEPT !.returned = TRUE]
                /\ pc' = "returned"
           ELSE /\ dd' = [DdNone EXCEPT !.snap = bs, !.i = 1, !.j = 2]
                /\ pc' = "dedup"
    /\ UNCHANGED <<heap, bullets, version, file, now, last, calls, iofails, ex>>

\* One iteration of the inner loop, on the pair (dd.i, dd.j).
DedupIter ==
    /\ UNCHANGED other
    /\ pc = "dedup"
    /\ dd.i < Len(dd.snap)
    /\ LET n   == Len(dd.snap)
           b1  == heap[dd.snap[dd.i]]
           b2  == heap[dd.snap[dd.j]]
           key == pair_key(b1, b2)
           nxt == NextPair(dd.i, dd.j, n, FALSE)
           brk == NextPair(dd.i, dd.j, n, TRUE)
           ev(resp) == [ o1 |-> dd.snap[dd.i], o2 |-> dd.snap[dd.j],
                         c1 |-> get_confidence_score(b1),
                         c2 |-> get_confidence_score(b2),
                         h1 |-> b1.helpful_count, h2 |-> b2.helpful_count,
                         kind |-> resp.kind, raised |-> Raises(resp),
                         dup |-> resp.dup, score |-> resp.score ]
       IN  IF key \in dd.checked
           THEN /\ dd' = [dd EXCEPT !.i = nxt[1], !.j = nxt[2], !.step = "checked"]
                /\ UNCHANGED <<heap, bullets, version, file, iofails>>
           ELSE IF DifferentSection(b1, b2)
           THEN /\ dd' = [dd EXCEPT !.i = nxt[1], !.j = nxt[2], !.step = "section",
                                    !.checked = @ \cup {key}]
                /\ UNCHANGED <<heap, bullets, version, file, iofails>>
           ELSE \E resp \in JudgeResponses :
                  IF ~Raises(resp) /\ ShouldMerge(resp)
                  THEN \E o1, o2 \in Outcomes \ {"killed"} :
                         LET first == KeepFirst(b1, b2)
                             keeper == IF first THEN b1 ELSE b2
                             loser  == IF first THEN b2 ELSE b1
                             res == Merge(Store, keeper, loser, now, o1, o2)
                         IN  /\ heap' = res.st.heap
                             /\ bullets' = res.st.bullets
                             /\ file' = res.st.file
                             /\ version' = res.st.version
                             /\ iofails' = iofails
                                  + (IF o1 # "ok" THEN 1 ELSE 0)
                                  + (IF o2 # "ok" /\ res.saves > 0 THEN 1 ELSE 0)
                             /\ dd' = [dd EXCEPT
                                         !.i = brk[1], !.j = brk[2],
                                         !.checked = @ \cup {key},
                                         !.calls = Append(@, <<dd.snap[dd.i], dd.snap[dd.j]>>),
                                         !.ev = ev(resp), !.step = "merged",
                                         !.merges = Append(@, [kept |-> keeper.id,
                                                               removed |-> loser.id])]
                  ELSE /\ dd' = [dd EXCEPT
                                   !.i = nxt[1], !.j = nxt[2],
                                   !.checked = @ \cup {key},
                                   !.calls = Append(@, <<dd.snap[dd.i], dd.snap[dd.j]>>),
                                   !.ev = ev(resp), !.step = "judged"]
                       /\ UNCHANGED <<heap, bullets, version, file, iofails>>
    /\ UNCHANGED <<now, pc, last, calls, ex>>

DedupReturn ==
    /\ UNCHANGED other
    /\ pc = "dedup"
    /\ dd.i >= Len(dd.snap)
    /\ dd' = [dd EXCEPT !.returned = TRUE, !.step = ""]
    /\ pc' = "returned"
    /\ UNCHANGED <<heap, bullets, version, file, now, last, calls, iofails, ex>>

----------------------------------------------------------------------------
(* Specifications *)

\* Direct calls of the Playbook's methods on a loaded Playbook.
Next ==
    \/ Tick
    \/ Resume
    \/ AddBullet
    \/ RemoveBullet
    \/ ModifyBullet

Spec == Init /\ [][Next]_vars

\* Calls of execute_operations on a loaded Playbook whose saves succeed.
InitExec ==
    /\ other = NoInstance
    /\ \E n \in 0..InitLen :
         \E cs \in [1..n -> {Str("a")}], ss \in [1..n -> Sections] :
             Loaded(n, cs, ss, [k \in 1..n |-> 0], [k \in 1..n |-> 0])
    /\ calls = 0
    /\ iofails = MaxIoFail

NextExec ==
    \/ Tick
    \/ Resume
    \/ ExecStart
    \/ ExecOp
    \/ ExecReturn

SpecExec == InitExec /\ [][NextExec]_vars

\* Two conversations started on the same well-formed file: each holds its
\* own Playbook instance loaded from it.  Requests of the two conversations
\* interleave; the saves succeed.
InitShared ==
    /\ \E n \in 0..InitLen :
         \E cs \in [1..n -> {Str("a")}], ss \in [1..n -> Sections] :
             Loaded(n, cs, ss, [k \in 1..n |-> 0], [k \in 1..n |-> 0])
    /\ other = [heap |-> heap, bullets |-> bullets, version |-> version]
    /\ calls = 0
    /\ iofails = MaxIoFail

NextShared ==
    \/ Tick
    \/ Resume
    \/ Switch
    \/ AddBullet
    \/ RemoveBullet
    \/ ModifyBullet

SpecShared == InitShared /\ [][NextShared]_vars

\* Calls of run_curator on a loaded Playbook whose saves succeed.
NextCurator ==
    \/ Tick
    \/ Resume
    \/ RunCuratorStart
    \/ ExecOp
    \/ ExecReturn

SpecCurator == InitExec /\ [][NextCurator]_vars

\* Dedup passes on a loaded Playbook, possibly after add_bullet calls; the
\* saves succeed.
InitDedup ==
    /\ other = NoInstance
    /\ \E n \in 0..InitLen :
         \E cs \in [1..n -> {Str("a")}], ss \in [1..n -> Sections],
            hs \in [1..n -> 0..InitCount], ms \in [1..n -> 0..InitCount] :
             Loaded(n, cs, ss, hs, ms)
    /\ calls = 0
    /\ iofails = MaxIoFail

NextDedup ==
    \/ Tick
    \/ Resume
    \/ AddBullet
    \/ DedupStart
    \/ DedupIter
    \/ DedupReturn

SpecDedup == InitDedup /\ [][NextDedup]_vars

\* Dedup passes on a Playbook loaded from a file of up to MaxObjs bullets
\* with feedback.
InitDedupLoaded ==
    /\ other = NoInstance
    /\ \E n \in 0..MaxObjs :
         \E cs \in [1..n -> {Str("a")}], ss \in [1..n -> Sections],
            hs \in [1..n -> 0..InitCount], ms \in [1..n -> 0..InitCount] :
             Loaded(n, cs, ss, hs, ms)
    /\ calls = 0
    /\ iofails = MaxIoFail

NextDedupLoaded ==
    \/ Tick
    \/ Resume
    \/ DedupStart
    \/ DedupIter
    \/ DedupReturn

SpecDedupLoaded == InitDedupLoaded /\ [][NextDedupLoaded]_vars

\* The same passes, run to their end: a call of semantic_deduplication that
\* has started goes on executing its loops and its return.
SpecDedupLive ==
    /\ InitDedupLoaded
    /\ [][NextDedupLoaded]_vars
    /\ WF_vars(DedupIter)
    /\ WF_vars(DedupReturn)

\* Reads of a loaded Playbook, possibly after an add_bullet call.
InitRead ==
    /\ other = NoInstance
    /\ \E n \in 0..InitLen :
         \E cs \in [1..n -> {Str("a")}], ss \in [1..n -> Sections],
            hs \in [1..n -> 0..InitCount], ms \in [1..n -> 0..InitCount] :
             Loaded(n, cs, ss, hs, ms)
    /\ calls = MaxCalls - 1
    /\ iofails = MaxIoFail

NextRead ==
    \/ Resume
    \/ AddBullet
    \/ ToPromptText
    \/ GetAllBullets
    \/ GetBulletsBySection
    \/ GetStatistics

SpecRead == InitRead /\ [][NextRead]_vars

\* A file whose JSON parses but whose bullets cannot be built.
BadEntryFile == [state |-> "badentry", version |-> "1.0", last_updated |-> "", bullets |-> <<>>]

\* The durable file found by the first Playbook(): none, a truncated or
\* malformed one, or a file written by an earlier run.
WellFormedFiles(n) ==
    { [state |-> "ok", version |-> v, last_updated |-> isoformat(0),
       bullets |-> [k \in 1..n |-> InitDict(k - n, Str("a"), ss[k], hs[k], ms[k])]] :
        v \in {VERSION, "1.0"}, ss \in [1..n -> Sections],
        hs \in [1..n -> 0..InitCount], ms \in [1..n -> 0..InitCount] }

BootFiles ==
    {NoFile, PartialFile, BadEntryFile} \cup UNION { WellFormedFiles(n) : n \in 0..InitLen }

\* Before the first Playbook() of the process.
InitBoot ==
    /\ other = NoInstance
    /\ heap = <<>>
    /\ bullets = <<>>
    /\ version = VERSION
    /\ file \in BootFiles
    /\ now = 1
    /\ pc = "boot"
    /\ last = LastNone
    /\ ex = ExNone
    /\ dd = DdNone
    /\ calls = MaxCalls - 1
    /\ iofails = 0

NextBoot ==
    \/ Tick
    \/ Resume
    \/ Construct
    \/ AddBullet
    \/ ModifyBullet

SpecBoot == InitBoot /\ [][NextBoot]_vars

----------------------------------------------------------------------------
(* Properties *)

IsMutator(op) == op \in {"add_bullet", "remove_bullet", "modify_bullet"}

\* A direct call of a Playbook method has just returned.
JustReturned == pc = "returned" /\ last.op # ""

\* The step is a direct call of method op that runs to its return.
CallOf(op) == pc = "idle" /\ pc' = "returned" /\ last'.op = op

\* The file holds exactly the bullets and the version of the store.
FileHoldsStore ==
    /\ file.state = "ok"
    /\ file.version = version
    /\ file.bullets = [k \in 1..Len(bullets) |-> to_dict(heap[bullets[k]])]

\* C1 (SpecExec): execute_operations returns normally on every operation
\* list, and when the call is over every entry of the list has been
\* processed (so that a well-formed operation after a failing entry is
\* applied).
C1_ExecuteReturnsNormally ==
    /\ ~ex.raised
    /\ (ex.returned \/ ex.raised) => ex.k = Len(ex.ops)

\* C2 (SpecExec): the result list returned by execute_operations has one
\* entry per operation, in the same order: result k reports operation k.
C2_OneResultPerOperation ==
    ex.returned =>
        /\ Len(ex.results) = Len(ex.ops)
        /\ \A k \in 1..Len(ex.ops) : ex.results[k].operation = GetType(ex.ops[k])

\* C3 (Spec): no two bullets of the store have the same id.
C3_UniqueIds ==
    \A a, b \in 1..Len(bullets) : a # b => heap[bullets[a]].id # heap[bullets[b]].id

\* C4, as claimed (Spec): whenever add_bullet, remove_bullet or modify_bullet
\* returns success, the file holds exactly the bullets and version of the
\* store.
C4_SavedOnSuccess ==
    (JustReturned /\ IsMutator(last.op) /\ last.ok) => FileHoldsStore

\* C4, amended (Spec): whenever add_bullet, remove_bullet or modify_bullet
\* returns success and the write of its save did not fail, the file holds
\* exactly the bullets and version of the store.
C4_SavedOnSuccessUnlessWriteFailed ==
    (JustReturned /\ IsMutator(last.op) /\ last.ok /\ last.io = "ok") => FileHoldsStore

C4_Witness ==
    /\ JustReturned /\ last.op = "remove_bullet" /\ last.ok /\ last.io = "ok"
    /\ Len(bullets) > 0

\* C5 (Spec): at every instant the file holds a complete store state, never
\* an empty, truncated or partial one.
C5_FileAlwaysComplete == file.state = "ok"

\* C6 (SpecDedup): a judged pair is merged iff the judge answers
\* are_duplicates = true with similarity_score >= threshold; the merge
\* record then names as kept the bullet whose confidence at that moment is
\* higher or equal (bullet1 on a tie) and as removed the other one, and no
\* bullet with the removed id is left in the store.
C6_MergeRule ==
    dd.step \in {"judged", "merged"} =>
        LET e   == dd.ev
            id1 == heap[e.o1].id
            id2 == heap[e.o2].id
        IN  /\ dd.step = "merged" <=> (~e.raised /\ e.dup /\ e.score >= Threshold)
            /\ dd.step = "merged" =>
                 /\ dd.merges # <<>>
                 /\ dd.merges[Len(dd.merges)] =
                      IF ConfGE(e.c1, e.c2)
                      THEN [kept |-> id1, removed |-> id2]
                      ELSE [kept |-> id2, removed |-> id1]
                 /\ ~HasId(Store, dd.merges[Len(dd.merges)].removed)

\* A merge of two bullets of equal confidence.
C6_Witness ==
    /\ dd.step = "merged"
    /\ dd.ev.c1[1] * dd.ev.c2[2] = dd.ev.c2[1] * dd.ev.c1[2]
    /\ heap[dd.ev.o1].id # heap[dd.ev.o2].id

\* C7 (SpecRead): to_prompt_text(sections, top_k) renders exactly the
\* store's bullets restricted to `sections` whenever the argument is given
\* (an empty list included), ranked by descending confidence with ties in
\* store order, and cut to the first top_k whenever the argument is given
\* (0 included).
C7_PromptTextBullets ==
    (JustReturned /\ last.op = "to_prompt_text") =>
        LET b1 == IF last.secGiven
                  THEN SelectSeq(bullets, LAMBDA x : heap[x].section \in last.sections)
                  ELSE bullets
            b2 == SortedByConf(heap, b1)
            b3 == IF last.topGiven THEN SubSeq(b2, 1, Min(last.top_k, Len(b2))) ELSE b2
        IN  /\ Len(last.out) = Len(b3)
            /\ { last.out[k] : k \in 1..Len(last.out) } = { b3[k] : k \in 1..Len(b3) }

\* C8 (Spec): remove_bullet(id) returns true iff a bullet with that id is in
\* the store; then the store holds no bullet with that id, every other bullet
\* is unchanged and keeps its relative order, and a second remove_bullet(id)
\* returns false.
C8_RemoveBullet ==
    [][ CallOf("remove_bullet") =>
          /\ last'.ok <=> HasId(Store, last'.id)
          /\ last'.ok =>
               /\ ~HasId(Store', last'.id)
               /\ BulletSeq(Store') =
                    SelectSeq(BulletSeq(Store), LAMBDA b : b.id # last'.id)
               /\ ~remove_bullet(Store', last'.id, now', "ok").ok ]_vars

C8_Witness ==
    JustReturned /\ last.op = "remove_bullet" /\ last.ok /\ Len(bullets) > 0

\* C9 (Spec): remove_bullet or modify_bullet with an id that no bullet of the
\* store has returns false, leaves the bullets, the store size and the
\* statistics unchanged, and performs no save: the file is not written.
C9_AbsentIdNoEffect ==
    [][ ((CallOf("remove_bullet") \/ CallOf("modify_bullet")) /\ ~HasId(Store, last'.id)) =>
          /\ ~last'.ok
          /\ last'.saves = 0
          /\ BulletSeq(Store') = BulletSeq(Store)
          /\ get_statistics(Store') = get_statistics(Store)
          /\ file' = file ]_vars

C9_Witness ==
    /\ JustReturned /\ last.op = "modify_bullet" /\ ~last.ok
    /\ last.mh /\ Truthy(last.nc) /\ Len(bullets) > 0

\* C10 (Spec): modify_bullet on an id present in the store returns true and
\* changes only that bullet: its content becomes new_content iff new_content
\* is non-empty, its helpful_count grows by 1 iff mark_helpful is requested,
\* its harmful_count grows by 1 iff mark_harmful is requested; the effects
\* are followed by exactly one save, which writes all of them.
C10_ModifyBullet ==
    [][ (CallOf("modify_bullet") /\ HasId(Store, last'.id)) =>
          LET k      == FirstWithId(Store, last'.id)
              before == BulletSeq(Store)
              after  == BulletSeq(Store')
          IN  /\ last'.ok
              /\ last'.saves = 1
              /\ Len(after) = Len(before)
              /\ \A m \in 1..Len(before) : m # k => after[m] = before[m]
              /\ after[k].content =
                   IF Truthy(last'.nc) THEN last'.nc ELSE before[k].content
              /\ after[k].helpful_count =
                   before[k].helpful_count + (IF last'.mh THEN 1 ELSE 0)
              /\ after[k].harmful_count =
                   before[k].harmful_count + (IF last'.mm THEN 1 ELSE 0)
              /\ after[k].id = before[k].id
              /\ after[k].section = before[k].section
              /\ after[k].created_at = before[k].created_at
              /\ last'.io = "ok" =>
                   file'.bullets = [m \in 1..Len(after) |-> to_dict(after[m])] ]_vars

\* A modify_bullet call that requests the three effects at once.
C10_Witness ==
    /\ JustReturned /\ last.op = "modify_bullet" /\ last.ok
    /\ Truthy(last.nc) /\ last.mh /\ last.mm /\ Len(bullets) > 1

\* C11 (SpecExec): every result that execute_operations appends for an
\* operation has success = true exactly when the operation is an add carrying
\* content and section, or a remove / modify / mark_helpful / mark_harmful
\* whose bullet_id names a bullet of the store at that moment; an operation
\* of unknown type gets success = false and leaves the bullets and the file
\* as they are.
C11_SuccessFlags ==
    [][ (pc = "exec" /\ ex'.k = ex.k + 1) =>
          LET op    == ex.ops[ex.k + 1]
              type  == GetType(op)
              new   == SubSeq(ex'.results, Len(ex.results) + 1, Len(ex'.results))
              byId  == type \in {"remove", "modify", "mark_helpful", "mark_harmful"}
              expected ==
                  \/ type = "add" /\ {"content", "section"} \subseteq op.keys
                  \/ byId /\ "bullet_id" \in op.keys /\ HasId(Store, op.bullet_id)
          IN  /\ new # <<>>
              /\ \A m \in 1..Len(new) : new[m].success <=> expected
              /\ (type # "add" /\ ~byId) =>
                   /\ BulletSeq(Store') = BulletSeq(Store)
                   /\ file' = file ]_vars

\* C12 (SpecRead): get_all_bullets returns every bullet of the store exactly
\* once, in descending order of confidence, and bullets of equal confidence
\* in their store order.
C12_GetAllBulletsOrder ==
    (JustReturned /\ last.op = "get_all_bullets") =>
        LET out    == last.out
            conf(x) == get_confidence_score(heap[x])
            pos(x) == CHOOSE k \in 1..Len(bullets) : bullets[k] = x
        IN  /\ Len(out) = Len(bullets)
            /\ \A k \in 1..Len(bullets) : \E m \in 1..Len(out) : out[m] = bullets[k]
            /\ \A a, b \in 1..Len(out) :
                 a < b =>
                   /\ ConfGE(conf(out[a]), conf(out[b]))
                   /\ ConfGE(conf(out[b]), conf(out[a])) => pos(out[a]) < pos(out[b])

\* Three bullets: one of higher confidence that is not the first of the
\* store, and two of equal confidence.
C12_Witness ==
    /\ JustReturned /\ last.op = "get_all_bullets"
    /\ Len(last.out) = 3
    /\ last.out # bullets
    /\ get_confidence_score(heap[last.out[2]]) = get_confidence_score(heap[last.out[3]])
    /\ ConfGT(get_confidence_score(heap[last.out[1]]), get_confidence_score(heap[last.out[2]]))

\* C17 (SpecRead): get_bullets_by_section, get_all_bullets, to_prompt_text and
\* get_statistics leave the bullet list (order and every field of every
\* bullet), the version and the file unchanged.
C17_ReadsChangeNothing ==
    [][ (\/ CallOf("get_bullets_by_section") \/ CallOf("get_all_bullets")
         \/ CallOf("to_prompt_text") \/ CallOf("get_statistics")) =>
          /\ BulletSeq(Store') = BulletSeq(Store)
          /\ version' = version
          /\ file' = file ]_vars

\* A read whose ranked result is not in store order.
C17_Witness ==
    /\ JustReturned /\ last.op = "to_prompt_text"
    /\ Len(last.out) = Len(bullets) /\ Len(bullets) > 1
    /\ last.out # bullets

\* C13 (Spec): the confidence of every bullet of the store is
\* helpful_count / (helpful_count + harmful_count) when that sum is not zero
\* and 1/2 when both counters are zero, it lies within [0, 1], and it is 1/2
\* for the bullet add_bullet has just created.
C13_Confidence ==
    /\ \A k \in 1..Len(bullets) :
         LET b == heap[bullets[k]]
             c == get_confidence_score(b)
             h == b.helpful_count
             m == b.harmful_count
         IN  /\ h >= 0 /\ m >= 0
             /\ c[2] > 0 /\ 0 <= c[1] /\ c[1] <= c[2]
             /\ h + m # 0 => c[1] * (h + m) = h * c[2]
             /\ (h = 0 /\ m = 0) => 2 * c[1] = c[2]
    /\ (JustReturned /\ last.op = "add_bullet") =>
         LET c == get_confidence_score(heap[bullets[Len(bullets)]])
         IN  2 * c[1] = c[2]

\* A store with a bullet marked helpful twice, next to a loaded bullet
\* without feedback.
C13_Witness ==
    /\ JustReturned /\ last.op = "modify_bullet" /\ last.ok
    /\ \E k \in 1..Len(bullets) : heap[bullets[k]].helpful_count = 2
    /\ \E k \in 1..Len(bullets) :
         heap[bullets[k]].helpful_count + heap[bullets[k]].harmful_count = 0

\* The store holds exactly the baseline bullets, without feedback.
HoldsBaseline(st) ==
    /\ Len(st.bullets) = Len(BaselineSections)
    /\ \A k \in 1..Len(st.bullets) :
         LET b == st.heap[st.bullets[k]]
         IN  /\ b.content = BaselineContents[k]
             /\ b.section = BaselineSections[k]
             /\ b.helpful_count = 0
             /\ b.harmful_count = 0

\* The step is a Playbook() that runs to its return.
Constructed == pc \in {"boot", "idle"} /\ pc' = "returned" /\ last'.op = "__init__"

\* C14, as claimed (SpecBoot): Playbook() returns normally; when no file
\* exists the store holds exactly the baseline bullets and the file has been
\* written with them; when the file is unreadable or malformed the store
\* holds exactly the baseline bullets; when the file is well formed the store
\* holds exactly the bullets of the file.
C14_Construct ==
    [][ Constructed =>
          /\ last'.ok
          /\ file.state = "absent" =>
               /\ HoldsBaseline(Store')
               /\ file'.state = "ok"
               /\ file'.version = version'
               /\ file'.bullets = [k \in 1..Len(bullets') |-> to_dict(heap'[bullets'[k]])]
          /\ file.state \in {"partial", "badentry"} => HoldsBaseline(Store')
          /\ file.state = "ok" =>
               [k \in 1..Len(bullets') |-> to_dict(heap'[bullets'[k]])] = file.bullets ]_vars

\* C14, amended (SpecBoot): as C14, but when no file exists the file has
\* been written with the baseline bullets unless the write of that save
\* failed.
C14_ConstructUnlessWriteFailed ==
    [][ Constructed =>
          /\ last'.ok
          /\ file.state = "absent" =>
               /\ HoldsBaseline(Store')
               /\ last'.saves = 1
               /\ last'.io = "ok" =>
                    /\ file'.state = "ok"
                    /\ file'.version = version'
                    /\ file'.bullets = [k \in 1..Len(bullets') |-> to_dict(heap'[bullets'[k]])]
          /\ file.state \in {"partial", "badentry"} =>
               /\ HoldsBaseline(Store')
               /\ file' = file
          /\ file.state = "ok" =>
               /\ [k \in 1..Len(bullets') |-> to_dict(heap'[bullets'[k]])] = file.bullets
               /\ file' = file ]_vars

\* The first Playbook() found no file, seeded the baseline and saved it.
C14_Witness ==
    /\ JustReturned /\ last.op = "__init__" /\ last.saves = 1 /\ last.io = "ok"
    /\ HoldsBaseline(Store)
    /\ FileHoldsStore

\* C15 (SpecBoot): in every state of the store, save followed by load, into
\* the same instance or into a new one, gives back the saved bullets in
\* order and in every field, and the same version; two saves of the same
\* store differ at most in the file's last_updated stamp.
C15_SaveLoadRoundTrip ==
    LET ts   == [k \in 1..Len(BaselineSections) |-> now]
        f1   == save(file, heap, bullets, version, now, "ok")
        same == load([Store EXCEPT !.file = f1], ts, now)
        new  == Playbook_init(f1, ts, now, "ok").st
    IN  /\ BulletSeq(same) = BulletSeq(Store)
        /\ same.version = version
        /\ BulletSeq(new) = BulletSeq(Store)
        /\ new.version = version
        /\ \A t2 \in now..MaxClock :
             LET f2 == save(f1, heap, bullets, version, t2, "ok")
             IN  [f2 EXCEPT !.last_updated = f1.last_updated] = f1

\* A Playbook() that has loaded the file saved by a modify_bullet of this
\* run: a bullet with feedback whose last_updated is later than its
\* created_at.
C15_Witness ==
    /\ JustReturned /\ last.op = "__init__" /\ last.saves = 0
    /\ calls = MaxCalls
    /\ FileHoldsStore
    /\ \E k \in 1..Len(bullets) :
         LET b == heap[bullets[k]]
         IN  /\ b.helpful_count > 0 /\ b.harmful_count > 0
             /\ b.content = Str("b")
             /\ b.last_updated # b.created_at

\* C16 (SpecDedup): when a dedup pass visits two bullets of different
\* sections, whatever their contents, the judge is not called on them,
\* no merge is recorded, and the store is left as it is.
C16_SectionScoped ==
    [][ (pc = "dedup" /\ dd.i < Len(dd.snap) /\ dd' # dd
           /\ heap[dd.snap[dd.i]].section # heap[dd.snap[dd.j]].section) =>
          /\ dd'.calls = dd.calls
          /\ dd'.merges = dd.merges
          /\ BulletSeq(Store') = BulletSeq(Store)
          /\ file' = file ]_vars

\* A pass over two bullets of the same content in different sections has
\* ended without a judge call.
C16_Witness ==
    /\ pc = "returned" /\ dd.returned
    /\ Len(dd.snap) = 2 /\ Len(bullets) = 2
    /\ heap[dd.snap[1]].section # heap[dd.snap[2]].section
    /\ heap[dd.snap[1]].content = heap[dd.snap[2]].content
    /\ dd.calls = <<>> /\ dd.merges = <<>>

\* C18 (SpecDedupLoaded): at every merge of a dedup pass the kept bullet's
\* helpful_count grows by exactly 1 if the removed bullet's helpful_count was
\* greater than 0 and stays the same otherwise, and no bullet's
\* harmful_count changes.
C18_MergeFeedback ==
    [][ (pc = "dedup" /\ dd'.step = "merged" /\ Len(dd'.merges) = Len(dd.merges) + 1) =>
          LET e      == dd'.ev
              first  == ConfGE(e.c1, e.c2)
              keeper == IF first THEN e.o1 ELSE e.o2
              loser  == IF first THEN e.o2 ELSE e.o1
          IN  /\ heap'[keeper].helpful_count =
                   heap[keeper].helpful_count
                     + (IF heap[loser].helpful_count > 0 THEN 1 ELSE 0)
              /\ \A o \in 1..Len(heap) : heap'[o].harmful_count = heap[o].harmful_count ]_vars

\* C19 (SpecDedup): when a dedup pass ends, every id listed as removed in
\* its merge records is absent from the store and every id listed as kept is
\* present in the store.
C19_KeptAliveRemovedGone ==
    (pc = "returned" /\ dd.returned) =>
        \A m \in 1..Len(dd.merges) :
            /\ ~HasId(Store, dd.merges[m].removed)
            /\ HasId(Store, dd.merges[m].kept)

\* C20 (SpecDedup): the two bullets passed to the judge are both in the store
\* at that moment (a bullet removed by an earlier merge of the pass is not
\* judged again and is not named in a later merge), and every merge makes
\* the store shrink by exactly one bullet.
C20_RemovedTakesNoPart ==
    [][ (pc = "dedup" /\ Len(dd'.calls) = Len(dd.calls) + 1) =>
          LET pr == dd'.calls[Len(dd'.calls)]
          IN  /\ \E k \in 1..Len(bullets) : bullets[k] = pr[1]
              /\ \E k \in 1..Len(bullets) : bullets[k] = pr[2]
              /\ dd'.step = "merged" => Len(bullets') = Len(bullets) - 1 ]_vars

\* C23 (SpecDedupLoaded): in a dedup pass the judge is called on the pair the
\* loops stand on, the first element never goes back to an earlier bullet,
\* and after a merge the scan leaves that bullet1 for good: it continues
\* with the next bullet of the ranked list and its first partner, or ends.
C23_OneMergePerFirst ==
    [][ (pc = "dedup" /\ pc' = "dedup" /\ dd' # dd) =>
          LET n == Len(dd.snap)
          IN  /\ dd'.snap = dd.snap
              /\ dd'.i >= dd.i
              /\ Len(dd'.calls) = Len(dd.calls) + 1 =>
                   dd'.calls[Len(dd'.calls)] = <<dd.snap[dd.i], dd.snap[dd.j]>>
              /\ Len(dd'.merges) = Len(dd.merges) + 1 =>
                   /\ dd'.i > dd.i
                   /\ dd.i + 2 <= n => (dd'.i = dd.i + 1 /\ dd'.j = dd.i + 2) ]_vars

\* The first bullet of three has been merged with the second: the pair
\* (1, 3) is skipped and the scan stands on (2, 3).
C23_Witness ==
    /\ pc = "dedup" /\ dd.step = "merged"
    /\ Len(dd.snap) = 3
    /\ dd.ev.o1 = dd.snap[1] /\ dd.ev.o2 = dd.snap[2]
    /\ dd.i = 2 /\ dd.j = 3

\* C25 (SpecDedupLoaded): in a dedup pass over a store with unique ids and no
\* other mutation interleaved, every merge keeps bullet1, the earlier bullet
\* of the ranked list, and removes bullet2; and the bullets that can still
\* appear in a pair stay ranked by descending confidence throughout the pass.
C25_KeepsEarlier ==
    /\ dd.step = "merged" =>
         /\ ConfGE(dd.ev.c1, dd.ev.c2)
         /\ dd.merges[Len(dd.merges)] =
              [kept |-> heap[dd.ev.o1].id, removed |-> heap[dd.ev.o2].id]
    /\ pc = "dedup" =>
         \A a, b \in 1..Len(dd.snap) :
             (dd.i <= a /\ a < b) =>
                 ConfGE(get_confidence_score(heap[dd.snap[a]]),
                        get_confidence_score(heap[dd.snap[b]]))

\* The second merge of a pass whose first merge raised the confidence of
\* its kept bullet.
C25_Witness ==
    /\ dd.step = "merged" /\ Len(dd.merges) = 2
    /\ Len(dd.snap) = 3
    /\ heap[dd.snap[1]].helpful_count = 1 /\ heap[dd.snap[1]].harmful_count = 1
    /\ \A a, b \in 1..Len(dd.snap) : a # b => heap[dd.snap[a]].id # heap[dd.snap[b]].id

\* C24 (SpecDedupLoaded): a pair whose judge call raises, or whose response is
\* not JSON, not a record, or carries a similarity_score that is not a
\* number, causes no merge and no change to the store or the file, and the
\* pass goes on with the next pair of the loops.
C24_JudgeFailureSkipsPair ==
    [][ ( /\ pc = "dedup"
          /\ Len(dd'.calls) = Len(dd.calls) + 1
          /\ dd'.ev.kind \in {"raises", "text", "bool"} ) =>
            /\ heap' = heap /\ bullets' = bullets /\ file' = file
            /\ dd'.merges = dd.merges
            /\ pc' = "dedup"
            /\ <<dd'.i, dd'.j>> = NextPair(dd.i, dd.j, Len(dd.snap), FALSE) ]_vars

\* The position in the snapshot of the bullet object o.
SnapPos(o) == CHOOSE a \in 1..Len(dd.snap) : dd.snap[a] = o

\* The judge calls of the pass so far are on pairs (i, j), i < j, of the
\* snapshot, issued in increasing lexicographic order of (i, j): no unordered
\* pair is judged twice, and there are at most n(n-1)/2 calls.
JudgeCallsInOrder ==
    LET n == Len(dd.snap)
        P(k) == <<SnapPos(dd.calls[k][1]), SnapPos(dd.calls[k][2])>>
    IN  /\ \A k \in 1..Len(dd.calls) :
             /\ \E a, b \in 1..n : dd.calls[k] = <<dd.snap[a], dd.snap[b]>>
             /\ P(k)[1] < P(k)[2]
        /\ \A k, l \in 1..Len(dd.calls) :
             k < l => ( \/ P(k)[1] < P(l)[1]
                        \/ P(k)[1] = P(l)[1] /\ P(k)[2] < P(l)[2] )
        /\ \A k, l \in 1..Len(dd.calls) :
             k # l => {dd.calls[k][1], dd.calls[k][2]} # {dd.calls[l][1], dd.calls[l][2]}
        /\ 2 * Len(dd.calls) <= n * (n - 1)
        /\ Len(dd.merges) <= Len(dd.calls)

\* The first step of a call: with fewer than 2 bullets it returns at once
\* with no judge call, no merge and nothing changed; otherwise the list the
\* loops run over holds every bullet of the store once, ranked by descending
\* confidence, and the loops start at the pair (1, 2).
DedupFirstStep ==
    (pc = "idle" /\ pc' # "idle") =>
        /\ heap' = heap /\ bullets' = bullets /\ file' = file /\ version' = version
        /\ dd'.calls = <<>> /\ dd'.merges = <<>>
        /\ IF Len(bullets) < 2
           THEN pc' = "returned" /\ dd'.returned
           ELSE /\ pc' = "dedup" /\ dd'.i = 1 /\ dd'.j = 2
                /\ Len(dd'.snap) = Len(bullets)
                /\ {dd'.snap[a] : a \in 1..Len(dd'.snap)}
                     = {bullets[a] : a \in 1..Len(bullets)}
                /\ \A a, b \in 1..Len(dd'.snap) :
                     a < b => ConfGE(get_confidence_score(heap[dd'.snap[a]]),
                                     get_confidence_score(heap[dd'.snap[b]]))

\* C26 (SpecDedupLive): a dedup pass over n bullets visits pairs (i, j),
\* i < j, of the confidence-ranked list fetched at its start, in order;
\* passes each unordered pair to the judge at most once, so issues at most
\* n(n-1)/2 judge calls; and terminates.  With fewer than 2 bullets it issues
\* no judge call, changes nothing and returns an empty merge list.
C26_PairsOnceAndTerminates ==
    /\ [](pc \in {"dedup", "returned"} => JudgeCallsInOrder)
    /\ [][DedupFirstStep]_vars
    /\ [][ (pc = "dedup" /\ pc' = "dedup" /\ dd' # dd) =>
             /\ dd.i < dd.j /\ dd.j <= Len(dd.snap)
             /\ \/ dd'.i = dd.i /\ dd'.j = dd.j + 1
                \/ dd'.i > dd.i ]_vars
    /\ (pc = "dedup" ~> (pc = "returned" /\ dd.returned))

\* A pass over three bullets that has judged all three pairs and returned.
C26_Witness ==
    /\ pc = "returned" /\ dd.returned
    /\ Len(dd.snap) = 3 /\ Len(dd.calls) = 3

\* run_curator has returned.
CuratorReturned == pc = "returned" /\ ex.rc # ""

\* C22 (SpecCurator): whenever run_curator returns its failure form (an
\* error entry with empty operations_proposed and execution_results), the
\* playbook's bullets and the file are the same as before the call.
C22_FailureAppliesNothing ==
    (CuratorReturned /\ run_curator_result.error) =>
        /\ run_curator_result.operations_proposed = <<>>
        /\ run_curator_result.execution_results = <<>>
        /\ BulletSeq(Store) = ex.before.bullets
        /\ file = ex.before.file

\* The bullets of the other conversation's instance.
OtherBullets == { other.heap[other.bullets[k]] : k \in 1..Len(other.bullets) }

\* The bullet was added or changed after the instances were loaded: the
\* stamps of the loaded file are earlier than every clock reading of a call.
StampedSinceLoad(b) == b.last_updated \in { isoformat(t) : t \in 1..MaxClock }

\* The bullets the file f holds.
FileBullets(f) == { f.bullets[k] : k \in 1..Len(f.bullets) }

\* C21 (SpecShared): with two Playbook instances on the same file, a bullet
\* that was added or changed through one instance and is in the file stays
\* in the file when the other instance makes a successful mutation.
C21_OtherInstanceChangeKept ==
    [][ ( /\ pc = "idle" /\ pc' = "returned"
          /\ IsMutator(last'.op) /\ last'.ok /\ last'.saves > 0 /\ last'.io = "ok" ) =>
            \A b \in OtherBullets :
                (StampedSinceLoad(b) /\ to_dict(b) \in FileBullets(file)) =>
                    to_dict(b) \in FileBullets(file') ]_vars

====
